---- MODULE Spec2Model ----
(***************************************************************************)
(* The controller of the weather application (src/src/app.rs): struct App, *)
(* App::init, App::update and the helpers they call, as a state machine.   *)
(* One step is one call of App::update (or of App::on_nav_select) by the   *)
(* runtime: a user or system message, or the message an in-flight          *)
(* Command::perform future resolves to.                                    *)
(***************************************************************************)
EXTENDS Bags, FiniteSets, Integers, Sequences, TLC

\* ------------------------------------------------------------------ bounds
\* In-flight Command::perform futures the environment lets accumulate.
MaxPending == 2
\* Message::ChangeCity messages processed in one run (caps the push counter).
MaxPushes == 3
\* Length of the candidate list the location resolver answers with.
MaxCandidates == 2
\* Distinct observations the weather provider may answer with per place.
MaxObs == 1
\* Calls of update and on_nav_select in a session that takes every message.
MaxSteps == 3

\* ------------------------------------------------------------ option type
\* Option<T>: None is the empty sequence, Some(x) the one-element sequence.
None == <<>>
Some(x) == <<x>>
IsSome(o) == o # <<>>
Unwrap(o) == o[1]

\* ------------------------------------------------------------------ enums
ContextPages == {"About", "Settings"}
NavPages == <<"HourlyView", "DailyView", "Details">>
Actions == {"About", "Settings", "ChangeCity", "Quit"}
UnitsValues == {"Fahrenheit", "Celsius"}
TimeFmtValues == {"TwelveHr", "TwentyFourHr"}
AppThemeValues == {"Light", "Dark", "System"}

\* ContextPage::title (the localized strings are named by their keys).
ContextTitle(page) == IF page = "About" THEN "about" ELSE "settings"

\* ------------------------------------------------- coordinates as strings
\* Latitude and longitude are Strings in Location and in WeatherConfig; a
\* string is modelled as the sequence of its characters so that the parse
\* to f64 is computed, not assumed.
Digits == {"0", "1", "2", "3", "4", "5", "6", "7", "8", "9"}

DigitVal(c) ==
  CASE c = "0" -> 0 [] c = "1" -> 1 [] c = "2" -> 2 [] c = "3" -> 3
    [] c = "4" -> 4 [] c = "5" -> 5 [] c = "6" -> 6 [] c = "7" -> 7
    [] c = "8" -> 8 [] c = "9" -> 9

RECURSIVE DigitsValue(_)
DigitsValue(ds) ==
  IF ds = <<>> THEN 0
  ELSE 10 * DigitsValue(SubSeq(ds, 1, Len(ds) - 1)) + DigitVal(ds[Len(ds)])

\* A decimal value mant / 10^scale without trailing fractional zeros, so that
\* "2.50" and "2.5" denote the same number.
RECURSIVE Normalize(_, _)
Normalize(mant, scale) ==
  IF scale > 0 /\ mant % 10 = 0 THEN Normalize(mant \div 10, scale - 1)
  ELSE <<mant, scale>>

\* str::parse::<f64> on the characters the model uses (sign, digits, point,
\* and characters that belong to no number): [+-]? digits* ('.' digits*)?
\* with at least one digit. Ok(v) is <<TRUE, v>>, Err is <<FALSE>>.
ParseF64(s) ==
  LET signed == Len(s) > 0 /\ s[1] \in {"+", "-"}
      body == IF signed THEN Tail(s) ELSE s
      dots == {i \in 1..Len(body) : body[i] = "."}
      wellFormed ==
        /\ \A i \in 1..Len(body) : body[i] \in Digits \cup {"."}
        /\ Cardinality(dots) <= 1
        /\ \E i \in 1..Len(body) : body[i] \in Digits
      dot == IF dots = {} THEN Len(body) + 1 ELSE CHOOSE i \in dots : TRUE
      ds == SubSeq(body, 1, dot - 1) \o SubSeq(body, dot + 1, Len(body))
      scale == IF dots = {} THEN 0 ELSE Len(body) - dot
      mag == Normalize(DigitsValue(ds), scale)
      neg == signed /\ s[1] = "-"
  IN IF wellFormed
     THEN <<TRUE, <<IF neg THEN 0 - mag[1] ELSE mag[1], mag[2]>>>>
     ELSE <<FALSE>>

\* ------------------------------------------------------ external answers
\* Candidates the location resolver may answer with
\* (crate::model::location::Location: display_name, lat, lon).
Denver ==
  [display_name |-> "Denver, CO",
   lat |-> <<"3", "9", ".", "7", "4">>,
   lon |-> <<"-", "1", "0", "4", ".", "9", "9">>]
Paris ==
  [display_name |-> "Paris, FR",
   lat |-> <<"4", "8", ".", "8", "5">>,
   lon |-> <<"2", ".", "3", "5">>]
\* A candidate whose latitude is not a number.
Garbled ==
  [display_name |-> "Null Island",
   lat |-> <<"?">>,
   lon |-> <<"0">>]
Locations == {Denver, Paris, Garbled}

\* The coordinate strings of the model, each parsed once: ParseF64 tabulated.
CoordStrings == {loc.lat : loc \in Locations} \cup {loc.lon : loc \in Locations}
ParsedF64 == [s \in CoordStrings |-> ParseF64(s)]
parse_f64(s) == ParsedF64[s]

\* The coordinates update_weather_data fetches for, once SetLocation has
\* written a candidate to the configuration.
Coords(loc) == <<parse_f64(loc.lat)[2], parse_f64(loc.lon)[2]>>

\* WeatherData: the default value, or what the provider observed at a place.
DefaultWeather == [at |-> <<>>, obs |-> 0]
Observation(coords, k) == [at |-> coords, obs |-> k]

\* Text the user may type into the dialog or that a DialogComplete carries.
Cities == {"", "Paris"}
Urls == {"https://github.com/jwestall/cosmic-weather"}
TransportErrors == {"error sending request"}

\* ------------------------------------------------------------ WeatherConfig
MkConfig(u, t, th, loc, lat, lon) ==
  [units |-> u, timefmt |-> t, app_theme |-> th,
   location |-> loc, latitude |-> lat, longitude |-> lon]

WithLocation(cfg, loc) ==
  [cfg EXCEPT !.location = Some(loc.display_name),
              !.latitude = Some(loc.lat),
              !.longitude = Some(loc.lon)]

\* ----------------------------------------------------------------- Message
MsgChangeCity == [type |-> "ChangeCity"]
MsgQuit == [type |-> "Quit"]
MsgSystemThemeModeChange == [type |-> "SystemThemeModeChange"]
MsgToggleContextPage(page) == [type |-> "ToggleContextPage", page |-> page]
MsgLaunchUrl(url) == [type |-> "LaunchUrl", url |-> url]
MsgKey(mods, key) == [type |-> "Key", modifiers |-> mods, key |-> key]
MsgModifiers(mods) == [type |-> "Modifiers", modifiers |-> mods]
MsgConfig(cfg) == [type |-> "Config", config |-> cfg]
MsgUnits(u) == [type |-> "Units", units |-> u]
MsgTimeFmt(t) == [type |-> "TimeFmt", timefmt |-> t]
MsgAppTheme(th) == [type |-> "AppTheme", theme |-> th]
MsgDialogComplete(city) == [type |-> "DialogComplete", city |-> city]
MsgDialogCancel == [type |-> "DialogCancel"]
MsgDialogUpdate(page) == [type |-> "DialogUpdate", dialog_page |-> page]
MsgSetLocation(loc) == [type |-> "SetLocation", location |-> loc]
MsgSetWeatherData(data) == [type |-> "SetWeatherData", data |-> data]
MsgError(err) == [type |-> "Error", err |-> err]

\* DialogPage::Change(String), the only dialog page.
Change(city) == <<"Change", city>>

\* ---------------------------------------------------------------- Command
CmdNone == [kind |-> "none"]
CmdWindowClose == [kind |-> "window_close"]
CmdSetWindowTitle == [kind |-> "set_window_title"]
CmdSetTheme(th) == [kind |-> "set_theme", theme |-> th]
CmdGetLocationData(city) == [kind |-> "get_location_data", city |-> city]
CmdGetWeatherData(coords) == [kind |-> "get_weather_data", coords |-> coords]

\* The commands that are futures handed to the executor (Command::perform).
IsPerform(cmd) == cmd.kind \in {"get_location_data", "get_weather_data"}

\* ----------------------------------------------------------- key bindings
Ctrl == {"CTRL"}
KeyBind(mods, key, action) == [modifiers |-> mods, key |-> key, action |-> action]
key_binds ==
  {KeyBind(Ctrl, "i", "About"), KeyBind(Ctrl, ",", "Settings"),
   KeyBind(Ctrl, "l", "ChangeCity"), KeyBind(Ctrl, "q", "Quit")}
KeyBindMatches(bind, mods, key) == bind.modifiers = mods /\ bind.key = key

ModifierSets == {{}, Ctrl}
Keys == {"i", ",", "l", "q", "z"}

ActionMessage(action) ==
  CASE action = "About" -> MsgToggleContextPage("About")
    [] action = "Settings" -> MsgToggleContextPage("Settings")
    [] action = "ChangeCity" -> MsgChangeCity
    [] action = "Quit" -> MsgQuit

\* ------------------------------------------------------------- struct App
\* An App value: the fields of struct App that change or are read by update
\* (core.window.show_context and the context title live in core).
MkApp(cfg, handler) ==
  [nav_active |-> Some("HourlyView"),
   modifiers |-> {},
   context_page |-> "Settings",
   show_context |-> FALSE,
   context_title |-> "",
   config_handler |-> handler,
   config |-> cfg,
   weather_data |-> DefaultWeather,
   dialog_pages |-> <<>>]

\* What a call of update (or init) leaves behind: the App, the commands it
\* returns, the configurations save_config was called with, and whether the
\* call panicked instead of returning.
Res(a, cmds, saves, panic) ==
  [app |-> a, commands |-> cmds, saves |-> saves, panic |-> panic]

\* App::save_config: writes the configuration as it is now (when there is a
\* handler; a failed write is only logged) and returns Command::none().
save_config(a) == [command |-> CmdNone, entry |-> a.config]

\* The Config Store after save_config has been called with each of `saves`.
RECURSIVE WriteEntries(_, _, _, _)
WriteEntries(handler, st, saves, ok) ==
  IF saves = <<>> THEN st
  ELSE WriteEntries(handler,
                    IF handler /\ ok THEN Some(Head(saves)) ELSE st,
                    Tail(saves), ok)

\* App::save_theme
save_theme(a) == CmdSetTheme(a.config.app_theme)

\* App::update_title
update_title(a) == CmdSetWindowTitle

\* As update_weather_data, but with latitude and longitude exchanged.
update_weather_data_Swapped(a) ==
  IF IsSome(a.config.latitude) /\ IsSome(a.config.longitude)
  THEN LET lat == parse_f64(Unwrap(a.config.latitude))
           long == parse_f64(Unwrap(a.config.longitude))
       IN IF lat[1] /\ long[1]
          THEN [panic |-> FALSE, command |-> CmdGetWeatherData(<<long[2], lat[2]>>)]
          ELSE [panic |-> TRUE, command |-> CmdNone]
  ELSE [panic |-> FALSE, command |-> CmdNone]

\* App::update_weather_data: a fetch for the configured coordinates when both
\* are present; expect() panics when one of them is not a number.
update_weather_data(a) ==
  IF IsSome(a.config.latitude) /\ IsSome(a.config.longitude)
  THEN LET lat == parse_f64(Unwrap(a.config.latitude))
           long == parse_f64(Unwrap(a.config.longitude))
       IN IF lat[1] /\ long[1]
          THEN [panic |-> FALSE, command |-> CmdGetWeatherData(<<lat[2], long[2]>>)]
          ELSE [panic |-> TRUE, command |-> CmdNone]
  ELSE [panic |-> FALSE, command |-> CmdNone]

\* As LocationResult, but an empty candidate list is reported with the text
\* of the weather closure.
LocationResult_WeatherText(data) ==
  IF data[1] = "Ok"
  THEN IF data[2] = <<>>
       THEN MsgError("Could not get weather data.")
       ELSE MsgSetLocation(Head(data[2]))
  ELSE MsgError(data[2])

\* The closure given to Command::perform with Location::get_location_data:
\* data is <<"Ok", candidates>> or <<"Err", err>>.
LocationResult(data) ==
  IF data[1] = "Ok"
  THEN IF data[2] = <<>>
       THEN MsgError("Could not get location data.")
       ELSE MsgSetLocation(Head(data[2]))
  ELSE MsgError(data[2])

\* The closure given to Command::perform with WeatherData::get_weather_data:
\* data is <<"Ok", Option<WeatherData>>> or <<"Err", err>>.
WeatherResult(data) ==
  IF data[1] = "Ok"
  THEN IF data[2] = None
       THEN MsgError("Could not get weather data.")
       ELSE MsgSetWeatherData(Unwrap(data[2]))
  ELSE MsgError(data[2])

\* As init, but the lookup of the default place is started whatever the
\* configuration holds.
init_AlwaysResolves(flags) ==
  LET a == MkApp(flags.config, flags.config_handler)
      weather == update_weather_data(a)
  IN Res(a, <<CmdGetLocationData("Denver"), update_title(a), weather.command>>,
         <<>>, weather.panic)

\* App::init
init(flags) ==
  LET a == MkApp(flags.config, flags.config_handler)
      resolve == IF a.config.location = None
                 THEN <<CmdGetLocationData("Denver")>> ELSE <<>>
      weather == update_weather_data(a)
  IN Res(a, resolve \o <<update_title(a), weather.command>>, <<>>, weather.panic)

\* App::dialog: the dialog on screen, with the messages its buttons send.
dialog(a) ==
  IF a.dialog_pages = <<>> THEN None
  ELSE LET dialog_page == Head(a.dialog_pages)
       IN Some([page |-> dialog_page,
                primary_action |-> MsgDialogComplete(dialog_page[2]),
                secondary_action |-> MsgDialogCancel])

\* App::context_drawer: the panel on screen.
context_drawer(a) == IF ~a.show_context THEN None ELSE Some(a.context_page)

\* As on_nav_select, but selecting the active page deactivates it.
on_nav_select_Deselects(a, id) ==
  Res([a EXCEPT !.nav_active =
         IF id \in 1..Len(NavPages)
         THEN IF @ = Some(NavPages[id]) THEN None ELSE Some(NavPages[id])
         ELSE @],
      <<CmdNone>>, <<>>, FALSE)

\* nav_bar::Model::activate, called by App::on_nav_select.
on_nav_select(a, id) ==
  Res([a EXCEPT !.nav_active =
         IF id \in 1..Len(NavPages) THEN Some(NavPages[id]) ELSE @],
      <<CmdNone>>, <<>>, FALSE)

\* ------------------------------------------------- App::update, arm by arm
\* As UpdateChangeCity, but a request made while a dialog is open is dropped.
UpdateChangeCity_OnlyWhenClosed(a) ==
  Res([a EXCEPT !.dialog_pages = IF @ = <<>> THEN <<Change("")>> ELSE @],
      <<>>, <<>>, FALSE)

UpdateChangeCity(a) ==
  Res([a EXCEPT !.dialog_pages = Append(@, Change(""))], <<>>, <<>>, FALSE)

UpdateQuit(a) == Res(a, <<CmdWindowClose>>, <<>>, FALSE)

\* As UpdateToggleContextPage, but switching to another page leaves the
\* visibility as it was.
UpdateToggleContextPage_KeepsVisibility(a, context_page) ==
  LET a1 == IF a.context_page = context_page
            THEN [a EXCEPT !.show_context = ~a.show_context]
            ELSE [a EXCEPT !.context_page = context_page]
  IN Res([a1 EXCEPT !.context_title = ContextTitle(context_page)],
         <<>>, <<>>, FALSE)

\* As UpdateToggleContextPage, but every toggle flips the visibility.
UpdateToggleContextPage_AlwaysFlips(a, context_page) ==
  Res([a EXCEPT !.context_page = context_page,
                !.show_context = ~a.show_context,
                !.context_title = ContextTitle(context_page)],
      <<>>, <<>>, FALSE)

UpdateToggleContextPage(a, context_page) ==
  LET a1 == IF a.context_page = context_page
            THEN [a EXCEPT !.show_context = ~a.show_context]
            ELSE [a EXCEPT !.context_page = context_page, !.show_context = TRUE]
  IN Res([a1 EXCEPT !.context_title = ContextTitle(context_page)],
         <<>>, <<>>, FALSE)

UpdateLaunchUrl(a, url) == Res(a, <<>>, <<>>, FALSE)

UpdateModifiers(a, modifiers) ==
  Res([a EXCEPT !.modifiers = modifiers], <<>>, <<>>, FALSE)

\* As UpdateConfig, but the configuration received is written back.
UpdateConfig_Saves(a, config) ==
  LET a1 == IF config # a.config THEN [a EXCEPT !.config = config] ELSE a
      s == save_config(a1)
  IN Res(a1, <<s.command>>, <<s.entry>>, FALSE)

UpdateConfig(a, config) ==
  Res(IF config # a.config THEN [a EXCEPT !.config = config] ELSE a,
      <<>>, <<>>, FALSE)

\* As UpdateUnits, but save_config is called before the field is set.
UpdateUnits_SavesFirst(a, units) ==
  LET s == save_config(a)
  IN Res([a EXCEPT !.config.units = units], <<s.command>>, <<s.entry>>, FALSE)

UpdateUnits(a, units) ==
  LET a1 == [a EXCEPT !.config.units = units]
      s == save_config(a1)
  IN Res(a1, <<s.command>>, <<s.entry>>, FALSE)

UpdateTimeFmt(a, timefmt) ==
  LET a1 == [a EXCEPT !.config.timefmt = timefmt]
      s == save_config(a1)
  IN Res(a1, <<s.command>>, <<s.entry>>, FALSE)

\* As UpdateAppTheme, but without the call of save_theme.
UpdateAppTheme_NoSaveTheme(a, theme) ==
  LET a1 == [a EXCEPT !.config.app_theme = theme]
      s == save_config(a1)
  IN Res(a1, <<s.command>>, <<s.entry>>, FALSE)

UpdateAppTheme(a, theme) ==
  LET a1 == [a EXCEPT !.config.app_theme = theme]
      s == save_config(a1)
  IN Res(a1, <<s.command, save_theme(a1)>>, <<s.entry>>, FALSE)

\* As UpdateDialogComplete, but the lookup is for the text of the dialog at
\* the front instead of the text the message carries.
UpdateDialogComplete_FrontText(a, city) ==
  LET s == save_config(a)
      text == IF a.dialog_pages = <<>> THEN city ELSE Head(a.dialog_pages)[2]
  IN Res([a EXCEPT !.dialog_pages = IF @ = <<>> THEN @ ELSE Tail(@)],
         <<CmdGetLocationData(text), s.command>>, <<s.entry>>, FALSE)

\* As UpdateDialogComplete, but with pop_front().unwrap(): a panic when no
\* dialog is open.
UpdateDialogComplete_Unwraps(a, city) ==
  LET s == save_config(a)
  IN IF a.dialog_pages = <<>> THEN Res(a, <<>>, <<>>, TRUE)
     ELSE Res([a EXCEPT !.dialog_pages = Tail(@)],
              <<CmdGetLocationData(city), s.command>>, <<s.entry>>, FALSE)

UpdateDialogComplete(a, city) ==
  LET s == save_config(a)
  IN Res([a EXCEPT !.dialog_pages = IF @ = <<>> THEN @ ELSE Tail(@)],
         <<CmdGetLocationData(city), s.command>>, <<s.entry>>, FALSE)

\* As UpdateDialogCancel, but with pop_back for pop_front.
UpdateDialogCancel_PopBack(a) ==
  Res([a EXCEPT !.dialog_pages =
         IF @ = <<>> THEN @ ELSE SubSeq(@, 1, Len(@) - 1)],
      <<>>, <<>>, FALSE)

UpdateDialogCancel(a) ==
  Res([a EXCEPT !.dialog_pages = IF @ = <<>> THEN @ ELSE Tail(@)],
      <<>>, <<>>, FALSE)

\* As UpdateDialogUpdate, but the element at the back is replaced.
UpdateDialogUpdate_Back(a, dialog_page) ==
  IF a.dialog_pages = <<>> THEN Res(a, <<>>, <<>>, TRUE)
  ELSE Res([a EXCEPT !.dialog_pages[Len(a.dialog_pages)] = dialog_page],
           <<>>, <<>>, FALSE)

\* VecDeque's index operator panics when the queue is empty.
UpdateDialogUpdate(a, dialog_page) ==
  IF a.dialog_pages = <<>> THEN Res(a, <<>>, <<>>, TRUE)
  ELSE Res([a EXCEPT !.dialog_pages[1] = dialog_page], <<>>, <<>>, FALSE)

\* As UpdateSetLocation, but a location that is already set is kept.
UpdateSetLocation_FirstWins(a, location) ==
  LET a1 == IF a.config.location = None
            THEN [a EXCEPT !.config.location = Some(location.display_name),
                           !.config.latitude = Some(location.lat),
                           !.config.longitude = Some(location.lon)]
            ELSE a
      s == save_config(a1)
      weather == update_weather_data(a1)
  IN Res(a1, <<s.command, weather.command>>, <<s.entry>>, weather.panic)

UpdateSetLocation(a, location) ==
  LET a1 == [a EXCEPT !.config.location = Some(location.display_name),
                      !.config.latitude = Some(location.lat),
                      !.config.longitude = Some(location.lon)]
      s == save_config(a1)
      weather == update_weather_data(a1)
  IN Res(a1, <<s.command, weather.command>>, <<s.entry>>, weather.panic)

\* As UpdateSetWeatherData, but data observed at a place other than the
\* configured one is dropped.
UpdateSetWeatherData_IfCurrent(a, data) ==
  LET current == IsSome(a.config.latitude) /\ IsSome(a.config.longitude)
                 /\ data.at = <<parse_f64(Unwrap(a.config.latitude))[2],
                                parse_f64(Unwrap(a.config.longitude))[2]>>
  IN Res(IF current THEN [a EXCEPT !.weather_data = data] ELSE a,
         <<>>, <<>>, FALSE)

UpdateSetWeatherData(a, data) ==
  Res([a EXCEPT !.weather_data = data], <<>>, <<>>, FALSE)

\* As UpdateError, but the lookup of the default place is started again.
UpdateError_Retries(a, err) ==
  Res(a, <<CmdGetLocationData("Denver")>>, <<>>, FALSE)

UpdateError(a, err) == Res(a, <<>>, <<>>, FALSE)

\* As UpdateSystemThemeModeChange, but the configured theme is set back to
\* the system's.
UpdateSystemThemeModeChange_ResetsTheme(a) ==
  LET a1 == [a EXCEPT !.config.app_theme = "System"]
      s == save_config(a1)
  IN Res(a1, <<save_theme(a1), s.command>>, <<s.entry>>, FALSE)

UpdateSystemThemeModeChange(a) ==
  LET s == save_config(a)
  IN Res(a, <<save_theme(a), s.command>>, <<s.entry>>, FALSE)

\* The bindings that match a key press; update applies the first one the
\* table's iteration finds.
MatchingBinds(modifiers, key) ==
  {bind \in key_binds : KeyBindMatches(bind, modifiers, key)}

RECURSIVE update(_, _)
\* As UpdateKey, but without the return: the bound action's message is
\* handled and the commands it returns are dropped.
UpdateKey_DropsCommands(a, modifiers, key) ==
  LET binds == MatchingBinds(modifiers, key)
  IN IF binds = {} THEN Res(a, <<>>, <<>>, FALSE)
     ELSE LET r == update(a, ActionMessage((CHOOSE bind \in binds : TRUE).action))
          IN Res(r.app, <<>>, r.saves, r.panic)

UpdateKey(a, modifiers, key) ==
  LET binds == MatchingBinds(modifiers, key)
  IN IF binds = {} THEN Res(a, <<>>, <<>>, FALSE)
     ELSE update(a, ActionMessage((CHOOSE bind \in binds : TRUE).action))

\* App::update
update(a, message) ==
  CASE message.type = "ChangeCity" -> UpdateChangeCity(a)
    [] message.type = "Quit" -> UpdateQuit(a)
    [] message.type = "ToggleContextPage" -> UpdateToggleContextPage(a, message.page)
    [] message.type = "LaunchUrl" -> UpdateLaunchUrl(a, message.url)
    [] message.type = "Key" -> UpdateKey(a, message.modifiers, message.key)
    [] message.type = "Modifiers" -> UpdateModifiers(a, message.modifiers)
    [] message.type = "Config" -> UpdateConfig(a, message.config)
    [] message.type = "Units" -> UpdateUnits(a, message.units)
    [] message.type = "TimeFmt" -> UpdateTimeFmt(a, message.timefmt)
    [] message.type = "AppTheme" -> UpdateAppTheme(a, message.theme)
    [] message.type = "DialogComplete" -> UpdateDialogComplete(a, message.city)
    [] message.type = "DialogCancel" -> UpdateDialogCancel(a)
    [] message.type = "DialogUpdate" -> UpdateDialogUpdate(a, message.dialog_page)
    [] message.type = "SetLocation" -> UpdateSetLocation(a, message.location)
    [] message.type = "SetWeatherData" -> UpdateSetWeatherData(a, message.data)
    [] message.type = "Error" -> UpdateError(a, message.err)
    [] message.type = "SystemThemeModeChange" -> UpdateSystemThemeModeChange(a)

\* ------------------------------------------------------------------ state
VARIABLES
  app,        \* the App
  store,      \* the Config Store's record of the configuration
  pending,    \* bag of the Command::perform futures in flight
  status,     \* "running", "closed" (window closed by Quit) or "crashed"
  lastMsg,    \* the message the last step gave to update
  commands,   \* the commands the last call of update (or init) returned
  saved,      \* the configurations save_config was called with in that call
  pushes,     \* Message::ChangeCity messages processed so far
  toggled,    \* the ToggleContextPage messages (at most the latest two) that
              \* end the run so far with no other message between them:
              \* the page each names and the panel state it found
  budget      \* calls the runtime still makes in this run, or Unlimited

vars ==
  <<app, store, pending, status, lastMsg, commands, saved, pushes, toggled,
    budget>>

\* A run that is not cut short.
Unlimited == -1

RECURSIVE SeqToBag(_)
SeqToBag(seq) ==
  IF seq = <<>> THEN EmptyBag ELSE SetToBag({Head(seq)}) (+) SeqToBag(Tail(seq))

\* The futures among the commands a call returned.
Performs(cmds) == SeqToBag(SelectSeq(cmds, IsPerform))

\* Configurations the program itself leaves in the store: the default, or
\* the default with a resolved location written by SetLocation.
DefaultConfig == MkConfig("Fahrenheit", "TwelveHr", "System", None, None, None)
StoredConfigs == {DefaultConfig} \cup {WithLocation(DefaultConfig, loc) : loc \in Locations}

\* Configurations a Message::Config may carry.
ConfigInputs ==
  {DefaultConfig,
   WithLocation(MkConfig("Celsius", "TwentyFourHr", "Dark", None, None, None), Paris)}

\* The program after App::init, started on one of `configs`, with `calls`
\* calls of update and on_nav_select ahead of it.
Started(configs, calls) ==
  \E cfg \in configs, handler \in BOOLEAN :
    LET r == init([config |-> cfg, config_handler |-> handler])
    IN /\ budget = calls
       /\ app = r.app
       /\ store = IF handler THEN Some(cfg) ELSE None
       /\ pending = IF r.panic THEN EmptyBag ELSE Performs(r.commands)
       /\ status = IF r.panic THEN "crashed" ELSE "running"
       /\ lastMsg = [type |-> "Init"]
       /\ commands = IF r.panic THEN <<>> ELSE r.commands
       /\ saved = r.saves
       /\ pushes = 0
       /\ toggled = <<>>

StartWith(configs) == Started(configs, Unlimited)

Init == StartWith(StoredConfigs)

\* One call fewer is ahead.
Spend == budget # 0 /\ budget' = IF budget > 0 THEN budget - 1 ELSE budget

\* The message update ends up handling: the bound action's for a key press
\* that matches a binding, the message itself otherwise.
Effective(message) ==
  IF message.type = "Key" /\ MatchingBinds(message.modifiers, message.key) # {}
  THEN ActionMessage((CHOOSE bind \in MatchingBinds(message.modifiers, message.key) : TRUE).action)
  ELSE message

\* One call of update by the runtime: `done` are the futures that resolved
\* into `message` (none for a user or system message). A write to the Config
\* Store, when the call makes one, succeeds or fails.
Step(message, done) ==
  /\ status = "running"
  /\ Spend
  /\ LET r == update(app, message)
         eff == Effective(message)
         left == pending (-) done
     IN /\ eff.type = "ChangeCity" => pushes < MaxPushes
        /\ BagCardinality(left (+) Performs(r.commands)) <= MaxPending
        /\ app' = r.app
        /\ \E ok \in IF app.config_handler /\ r.saves # <<>> THEN BOOLEAN ELSE {TRUE} :
             store' = WriteEntries(app.config_handler, store, r.saves, ok)
        /\ pending' = IF r.panic THEN left ELSE left (+) Performs(r.commands)
        /\ status' = IF r.panic THEN "crashed"
                     ELSE IF \E i \in 1..Len(r.commands) : r.commands[i] = CmdWindowClose
                          THEN "closed" ELSE "running"
        /\ lastMsg' = message
        /\ commands' = IF r.panic THEN <<>> ELSE r.commands
        /\ saved' = r.saves
        /\ pushes' = IF eff.type = "ChangeCity" THEN pushes + 1 ELSE pushes
        /\ toggled' = IF eff.type = "ToggleContextPage"
                      THEN LET found == [toggle |-> eff.page,
                                         context_page |-> app.context_page,
                                         show_context |-> app.show_context]
                           IN IF toggled = <<>> THEN <<found>>
                              ELSE <<toggled[Len(toggled)], found>>
                      ELSE <<>>

\* ----------------------------------------------------------- the inputs
\* The messages of each variant that the views and the subscriptions send.
\* Each set is a constant of the model, computed once before the search.
ToggleContextPageMessages == {MsgToggleContextPage(page) : page \in ContextPages}
LaunchUrlMessages == {MsgLaunchUrl(url) : url \in Urls}
KeyMessages == {MsgKey(mods, key) : mods \in ModifierSets, key \in Keys}
ModifiersMessages == {MsgModifiers(mods) : mods \in ModifierSets}
ConfigMessages == {MsgConfig(cfg) : cfg \in ConfigInputs}
UnitsMessages == {MsgUnits(u) : u \in UnitsValues}
TimeFmtMessages == {MsgTimeFmt(t) : t \in TimeFmtValues}
AppThemeMessages == {MsgAppTheme(th) : th \in AppThemeValues}
DialogCompleteMessages == {MsgDialogComplete(city) : city \in Cities}
DialogUpdateMessages == {MsgDialogUpdate(Change(city)) : city \in Cities}

\* ---------------------------------------------------------------- actions
ChangeCity == Step(MsgChangeCity, EmptyBag)
Quit == Step(MsgQuit, EmptyBag)
SystemThemeModeChange == Step(MsgSystemThemeModeChange, EmptyBag)
ToggleContextPage ==
  \E message \in ToggleContextPageMessages : Step(message, EmptyBag)
LaunchUrl == \E message \in LaunchUrlMessages : Step(message, EmptyBag)
Key == \E message \in KeyMessages : Step(message, EmptyBag)
ModifiersChanged == \E message \in ModifiersMessages : Step(message, EmptyBag)
ConfigChanged == \E message \in ConfigMessages : Step(message, EmptyBag)
SetUnits == \E message \in UnitsMessages : Step(message, EmptyBag)
SetTimeFmt == \E message \in TimeFmtMessages : Step(message, EmptyBag)
SetAppTheme == \E message \in AppThemeMessages : Step(message, EmptyBag)
DialogComplete == \E message \in DialogCompleteMessages : Step(message, EmptyBag)
DialogCancel == Step(MsgDialogCancel, EmptyBag)
DialogUpdate == \E message \in DialogUpdateMessages : Step(message, EmptyBag)

\* Candidate lists the resolver may answer with.
CandidateLists ==
  UNION {[1..n -> Locations] : n \in 0..MaxCandidates}

\* What Location::get_location_data may resolve to.
LocationAnswers ==
  {<<"Ok", l>> : l \in CandidateLists} \cup {<<"Err", e>> : e \in TransportErrors}

\* What WeatherData::get_weather_data may resolve to for `coords`.
WeatherAnswers(coords) ==
  {<<"Ok", Some(Observation(coords, k))>> : k \in 1..MaxObs}
    \cup {<<"Ok", None>>}
    \cup {<<"Err", e>> : e \in TransportErrors}

\* A get_location_data future resolves to one of `answers`; the message its
\* closure makes of the answer is handled.
LocationAnswered(answers) ==
  \E cmd \in BagToSet(pending) :
    /\ cmd.kind = "get_location_data"
    /\ \E data \in answers : Step(LocationResult(data), SetToBag({cmd}))

\* A get_weather_data future resolves; the message its closure makes of the
\* answer is handled. `found` restricts the answers to a snapshot.
WeatherAnswered(found) ==
  \E cmd \in BagToSet(pending) :
    /\ cmd.kind = "get_weather_data"
    /\ \E data \in WeatherAnswers(cmd.coords) :
         /\ found => (data[1] = "Ok" /\ data[2] # None)
         /\ Step(WeatherResult(data), SetToBag({cmd}))

LocationDone == LocationAnswered(LocationAnswers)
WeatherDone == WeatherAnswered(FALSE)

\* The user selects a page of the navigation bar.
NavSelect ==
  \E id \in 1..Len(NavPages) :
    /\ status = "running"
    /\ Spend
    /\ LET r == on_nav_select(app, id)
       IN /\ app' = r.app
          /\ lastMsg' = [type |-> "NavSelect", id |-> id]
          /\ commands' = r.commands
          /\ saved' = r.saves
          /\ toggled' = <<>>
          /\ UNCHANGED <<store, pending, status, pushes>>

Next ==
  \/ ChangeCity \/ Quit \/ SystemThemeModeChange \/ ToggleContextPage
  \/ LaunchUrl \/ Key \/ ModifiersChanged \/ ConfigChanged
  \/ SetUnits \/ SetTimeFmt \/ SetAppTheme
  \/ DialogComplete \/ DialogCancel \/ DialogUpdate
  \/ LocationDone \/ WeatherDone \/ NavSelect

Spec == Init /\ [][Next]_vars

\* The program driven by one family of messages at a time.
\* The context panel, the key bindings, the navigation bar:
NextPanel ==
  \/ ToggleContextPage \/ Key \/ ModifiersChanged \/ NavSelect
  \/ LaunchUrl \/ Quit
SpecPanel == Init /\ [][NextPanel]_vars

\* The dialog queue, driven by the menu, the keyboard and the dialog:
NextQueue ==
  \/ ChangeCity \/ Key \/ DialogUpdate \/ DialogCancel \/ DialogComplete
SpecQueue == Init /\ [][NextQueue]_vars

\* The dialog and the lookups it starts, through to their results:
NextDialog ==
  \/ ChangeCity \/ DialogUpdate \/ DialogCancel \/ DialogComplete
  \/ LocationDone \/ WeatherDone
SpecDialog == Init /\ [][NextDialog]_vars

\* The settings page and the configuration subscriptions:
NextSettings ==
  \/ SetUnits \/ SetTimeFmt \/ SetAppTheme \/ ConfigChanged
  \/ SystemThemeModeChange
SpecSettings == Init /\ [][NextSettings]_vars

\* Location lookups and weather fetches, from startup and from the dialog:
NextLocation == DialogComplete \/ LocationDone \/ WeatherDone
SpecLocation == Init /\ [][NextLocation]_vars

\* The first start, left alone: no location is stored, the resolver finds a
\* place with numeric coordinates, the provider has a snapshot for it, and
\* no other message arrives. The executor runs every future it was given.
Numeric(loc) == parse_f64(loc.lat)[1] /\ parse_f64(loc.lon)[1]
FreshConfigs ==
  {MkConfig(u, t, th, None, None, None) :
     u \in UnitsValues, t \in TimeFmtValues, th \in AppThemeValues}
FoundAnswers ==
  {<<"Ok", l>> : l \in {c \in CandidateLists : c # <<>> /\ Numeric(c[1])}}
LocationFound == LocationAnswered(FoundAnswers)
WeatherFound == WeatherAnswered(TRUE)
NextStartup == LocationFound \/ WeatherFound
SpecStartup ==
  /\ StartWith(FreshConfigs)
  /\ [][NextStartup]_vars
  /\ WF_vars(LocationFound)
  /\ WF_vars(WeatherFound)

\* Two lookups that overlap: the first start, and a city confirmed in the
\* dialog while the lookup of the default place is still in flight. The
\* resolver finds each place under its name, the provider has a snapshot for
\* each, no other message arrives, and the executor runs every future.
Place(city) == IF city = "Denver" THEN Denver ELSE Paris
SecondRequest ==
  /\ app.config.location = None
  /\ pending = SetToBag({CmdGetLocationData("Denver")})
  /\ Step(MsgDialogComplete("Paris"), EmptyBag)
PlaceFound ==
  \E cmd \in BagToSet(pending) :
    /\ cmd.kind = "get_location_data"
    /\ \E l \in CandidateLists :
         /\ l # <<>> /\ l[1] = Place(cmd.city)
         /\ Step(LocationResult(<<"Ok", l>>), SetToBag({cmd}))
NextOverlap == SecondRequest \/ PlaceFound \/ WeatherFound
SpecOverlap ==
  /\ StartWith(FreshConfigs)
  /\ [][NextOverlap]_vars
  /\ WF_vars(PlaceFound)
  /\ WF_vars(WeatherFound)

\* The effects a call may leave behind (saves, theme, lookups, fetches) and
\* the results of the lookups and fetches:
NextEffects ==
  \/ SetUnits \/ SystemThemeModeChange \/ DialogComplete
  \/ LocationDone \/ WeatherDone
SpecEffects == Init /\ [][NextEffects]_vars

\* A short session that takes every message: MaxSteps calls from any start.
SpecSession == Started(StoredConfigs, MaxSteps) /\ [][Next]_vars

\* ---------------------------------------------------------------- claims

\* C1: in every reachable state the dialog on screen is the front element of
\* dialog_pages (none when the queue is empty), and a DialogComplete or
\* DialogCancel handled with a non-empty queue removes exactly the front
\* element and keeps the others in their order, so that the next-oldest
\* request becomes the dialog on screen.
DialogShowsFront ==
  /\ dialog(app) = None <=> app.dialog_pages = <<>>
  /\ app.dialog_pages # <<>> => Unwrap(dialog(app)).page = app.dialog_pages[1]

PopRevealsNext ==
  (lastMsg'.type \in {"DialogComplete", "DialogCancel"} /\ app.dialog_pages # <<>>)
    => /\ app'.dialog_pages = Tail(app.dialog_pages)
       /\ Len(app.dialog_pages) >= 2
            => Unwrap(dialog(app')).page = app.dialog_pages[2]

C1_DialogIsFrontOfQueue == []DialogShowsFront /\ [][PopRevealsNext]_vars

\* A DialogComplete has removed the front of three requests, and the next
\* of them is on screen.
C1_Witness ==
  /\ lastMsg.type = "DialogComplete"
  /\ pushes = 3
  /\ Len(app.dialog_pages) = 2
  /\ Unwrap(dialog(app)).page = app.dialog_pages[1]

\* The last two messages were ToggleContextPage messages for the same page.
ToggledTwice ==
  Len(toggled) = 2 /\ toggled[1].toggle = toggled[2].toggle

\* C2 as stated: after ToggleContextPage(P) twice in a row, show_context has
\* the value it had before the first of the two, whatever panel was selected.
C2_TogglingTwiceRestoresVisibility ==
  ToggledTwice => app.show_context = toggled[1].show_context

\* C2 as amended: after ToggleContextPage(P) twice in a row P is selected;
\* show_context has the value it had before the first of the two when P was
\* the selected page then, and is false when another page was selected.
C2_TogglingTwiceRestoresSelectedPage ==
  ToggledTwice =>
    /\ app.context_page = toggled[1].toggle
    /\ app.show_context =
         IF toggled[1].context_page = toggled[1].toggle
         THEN toggled[1].show_context ELSE FALSE

\* Two toggles of the page that was not selected, starting with the other
\* page on screen.
C2_Witness ==
  /\ ToggledTwice
  /\ toggled[1].context_page # toggled[1].toggle
  /\ toggled[1].show_context
  /\ ~app.show_context

\* C3: ToggleContextPage(P) flips show_context and keeps the selection when P
\* is the selected page, and otherwise selects P and sets show_context; so
\* ToggleContextPage(P) followed by ToggleContextPage(Q), Q # P, ends with Q
\* selected and on screen. It returns no command, calls no save_config and
\* changes nothing outside the context panel (selection, visibility, title).
ToggleSelectsOrFlips ==
  toggled # <<>> =>
    LET found == toggled[Len(toggled)]
    IN /\ found.context_page = found.toggle =>
            /\ app.context_page = found.context_page
            /\ app.show_context = ~found.show_context
       /\ found.context_page # found.toggle =>
            /\ app.context_page = found.toggle
            /\ app.show_context
       /\ (Len(toggled) = 2 /\ toggled[1].toggle # toggled[2].toggle) =>
            /\ app.context_page = toggled[2].toggle
            /\ app.show_context
       /\ commands = <<>>
       /\ saved = <<>>

ToggleTouchesOnlyPanel ==
  toggled' # <<>> =>
    /\ app' = [app EXCEPT !.context_page = app'.context_page,
                          !.show_context = app'.show_context,
                          !.context_title = app'.context_title]
    /\ UNCHANGED <<store, pending, status, pushes>>

OfKind(cmds, kind) == SelectSeq(cmds, LAMBDA cmd : cmd.kind = kind)

\* C4: Units(u), TimeFmt(t) and AppTheme(th) each set their field of the
\* configuration to the value given and leave the other fields (and the rest
\* of the App) as they were; each calls save_config exactly once; AppTheme
\* returns in addition exactly one set_theme command, for th, and the other
\* two return none.
SettingIsSetAndSaved ==
  lastMsg'.type \in {"Units", "TimeFmt", "AppTheme"} =>
    /\ app'.config =
         CASE lastMsg'.type = "Units" -> [app.config EXCEPT !.units = lastMsg'.units]
           [] lastMsg'.type = "TimeFmt" -> [app.config EXCEPT !.timefmt = lastMsg'.timefmt]
           [] lastMsg'.type = "AppTheme" -> [app.config EXCEPT !.app_theme = lastMsg'.theme]
    /\ app' = [app EXCEPT !.config = app'.config]
    /\ Len(saved') = 1
    /\ OfKind(commands', "set_theme") =
         IF lastMsg'.type = "AppTheme" THEN <<CmdSetTheme(lastMsg'.theme)>> ELSE <<>>
    /\ Performs(commands') = EmptyBag
    /\ UNCHANGED <<pending, status>>

C4_SettingsAreSetAndSaved == [][SettingIsSetAndSaved]_vars

\* AppTheme(Dark) has been handled after the units were set to Celsius.
C4_Witness ==
  /\ lastMsg = MsgAppTheme("Dark")
  /\ app.config.app_theme = "Dark"
  /\ app.config.units = "Celsius"
  /\ Len(saved) = 1
  /\ commands = <<CmdNone, CmdSetTheme("Dark")>>

\* C5 as stated: SetLocation(loc) sets location, latitude and longitude of
\* the configuration to loc's fields, calls save_config exactly once and
\* returns exactly one get_weather_data command, for the coordinates it has
\* just written.
C5_LocationResolvedFetchesWeather ==
  lastMsg.type = "SetLocation" =>
    /\ app.config.location = Some(lastMsg.location.display_name)
    /\ app.config.latitude = Some(lastMsg.location.lat)
    /\ app.config.longitude = Some(lastMsg.location.lon)
    /\ Len(saved) = 1
    /\ Len(OfKind(commands, "get_weather_data")) = 1
    /\ OfKind(commands, "get_weather_data")[1].coords = Coords(lastMsg.location)

\* C6: DialogComplete(city) removes the front of dialog_pages (if any),
\* returns exactly one get_location_data command, for the city the message
\* carries, calls save_config exactly once, and changes neither the
\* configuration nor the weather data; handled with the one dialog
\* Change("Paris") open and city = "Paris" it leaves the queue empty.
DialogCompleteLooksUpCity ==
  lastMsg'.type = "DialogComplete" =>
    /\ app'.dialog_pages =
         IF app.dialog_pages = <<>> THEN <<>> ELSE Tail(app.dialog_pages)
    /\ OfKind(commands', "get_location_data") = <<CmdGetLocationData(lastMsg'.city)>>
    /\ OfKind(commands', "get_weather_data") = <<>>
    /\ pending' = pending (+) SetToBag({CmdGetLocationData(lastMsg'.city)})
    /\ Len(saved') = 1
    /\ app'.config = app.config
    /\ app'.weather_data = app.weather_data
    /\ (app.dialog_pages = <<Change("Paris")>> /\ lastMsg'.city = "Paris")
         => app'.dialog_pages = <<>>

C6_DialogConfirm == [][DialogCompleteLooksUpCity]_vars

\* DialogComplete("Paris") has been handled and has left the queue empty,
\* with the lookup of Paris in flight.
C6_Witness ==
  /\ lastMsg = MsgDialogComplete("Paris")
  /\ pushes = 1
  /\ app.dialog_pages = <<>>
  /\ commands = <<CmdGetLocationData("Paris"), CmdNone>>
  /\ BagIn(CmdGetLocationData("Paris"), pending)

\* C7: a get_location_data future that resolves to an empty candidate list
\* becomes the one message Error("Could not get location data."); handling
\* it changes nothing of the App or the store, returns no command and calls
\* no save_config: the future is gone and nothing has taken its place.
EmptyAnswerIsError ==
  LocationResult(<<"Ok", <<>>>>) = MsgError("Could not get location data.")

ErrorChangesNothing ==
  lastMsg' = MsgError("Could not get location data.") =>
    /\ app' = app
    /\ commands' = <<>>
    /\ saved' = <<>>
    /\ UNCHANGED <<store, status, pushes>>
    /\ \E cmd \in BagToSet(pending) :
         /\ cmd.kind = "get_location_data"
         /\ pending' = pending (-) SetToBag({cmd})

C7_NoCandidateIsAnError == []EmptyAnswerIsError /\ [][ErrorChangesNothing]_vars

\* The lookup started at startup found no candidate: no location is stored
\* and nothing is in flight.
C7_Witness ==
  /\ lastMsg = MsgError("Could not get location data.")
  /\ status = "running"
  /\ app.config.location = None
  /\ app.weather_data = DefaultWeather
  /\ pending = EmptyBag

\* C8: init returns exactly one get_location_data command, for "Denver",
\* when the configuration holds no location, and none when it holds one.
C8_StartupResolvesDenverIffNoLocation ==
  lastMsg.type = "Init" =>
    OfKind(commands, "get_location_data") =
      IF app.config.location = None THEN <<CmdGetLocationData("Denver")>> ELSE <<>>

\* The program has started without a stored location.
C8_Witness ==
  /\ lastMsg.type = "Init"
  /\ app.config.location = None
  /\ pending = SetToBag({CmdGetLocationData("Denver")})

\* C9: started without a location and left alone, with a resolver that
\* finds a place and a provider that has a snapshot, the program looks up
\* "Denver", then stores the candidate's name and coordinates and fetches
\* the weather for these coordinates, then holds the snapshot it was given.
Resolving ==
  /\ lastMsg.type = "Init"
  /\ app.config.location = None
  /\ app.weather_data = DefaultWeather
  /\ pending = SetToBag({CmdGetLocationData("Denver")})

Located ==
  /\ lastMsg.type = "SetLocation"
  /\ app.config.location = Some(lastMsg.location.display_name)
  /\ app.config.latitude = Some(lastMsg.location.lat)
  /\ app.config.longitude = Some(lastMsg.location.lon)
  /\ app.weather_data = DefaultWeather
  /\ pending = SetToBag({CmdGetWeatherData(Coords(lastMsg.location))})

Fetched ==
  /\ lastMsg.type = "SetWeatherData"
  /\ app.weather_data = lastMsg.data
  /\ \E loc \in Locations :
       /\ app.config.location = Some(loc.display_name)
       /\ app.config.latitude = Some(loc.lat)
       /\ app.config.longitude = Some(loc.lon)
       /\ Numeric(loc)
       /\ lastMsg.data.at = Coords(loc)
  /\ pending = EmptyBag

StartupOrder ==
  /\ Resolving => Located'
  /\ Located => (Fetched' /\ app'.config = app.config)
  /\ Resolving \/ Located

C9_StartupReachesWeather == Resolving /\ [][StartupOrder]_vars /\ <>Fetched

\* The weather of Denver, CO is held: the coordinates 39.74 and -104.99 were
\* parsed from the candidate's strings.
C9_Witness ==
  /\ Fetched
  /\ app.config.location = Some("Denver, CO")
  /\ app.weather_data = Observation(<<<<3974, 2>>, <<0 - 10499, 2>>>>, 1)

\* C10: dialog_pages is never longer than the number of ChangeCity messages
\* handled so far (sent directly or through a key binding); each of them
\* appends exactly one Change("") at the back, also when a dialog is open;
\* DialogComplete and DialogCancel each remove at most one element.
QueueWithinPushes ==
  Len(app.dialog_pages) >= 0 /\ Len(app.dialog_pages) <= pushes

PushAppendsPopRemovesOne ==
  /\ Effective(lastMsg').type = "ChangeCity" =>
       /\ app'.dialog_pages = Append(app.dialog_pages, Change(""))
       /\ pushes' = pushes + 1
  /\ Effective(lastMsg').type # "ChangeCity" => pushes' = pushes
  /\ lastMsg'.type \in {"DialogComplete", "DialogCancel"} =>
       /\ Len(app'.dialog_pages) <= Len(app.dialog_pages)
       /\ Len(app'.dialog_pages) >= Len(app.dialog_pages) - 1

C10_QueueLengthWithinPushes == []QueueWithinPushes /\ [][PushAppendsPopRemovesOne]_vars

\* A third request has been pushed through the key binding while two
\* dialogs were open.
C10_Witness ==
  /\ lastMsg.type = "Key"
  /\ Effective(lastMsg).type = "ChangeCity"
  /\ pushes = 3
  /\ Len(app.dialog_pages) = 3

\* C11: after init and after any sequence of messages and navigation
\* selections exactly one of the pages HourlyView, DailyView, Details is
\* active (HourlyView after init); selecting a page makes it the active one,
\* selecting the active page changes nothing in the App, and no message
\* handled by update changes the active page.
OnePageActive ==
  /\ \E i \in 1..Len(NavPages) : app.nav_active = Some(NavPages[i])
  /\ lastMsg.type = "Init" => app.nav_active = Some("HourlyView")

NavSelectActivates ==
  IF lastMsg'.type = "NavSelect"
  THEN /\ app'.nav_active = Some(NavPages[lastMsg'.id])
       /\ app.nav_active = Some(NavPages[lastMsg'.id]) => app' = app
       /\ app' = [app EXCEPT !.nav_active = app'.nav_active]
  ELSE app'.nav_active = app.nav_active

C11_OnePageActive == []OnePageActive /\ [][NavSelectActivates]_vars

\* A page other than the first was selected and a ToggleContextPage handled
\* after that has left it active.
C11_Witness ==
  /\ lastMsg.type = "ToggleContextPage"
  /\ app.nav_active = Some("Details")

\* The last message handled is the result of a future (only the closures of
\* Command::perform make these messages).
IsResult(message) == message.type \in {"SetLocation", "SetWeatherData", "Error"}

\* Futures the call that leads to the next state has handed to the runtime.
FuturesStarted(cmds, crashed) == IF crashed THEN 0 ELSE BagCardinality(Performs(cmds))

\* C12 as stated: every effect a call or init produces (get_location_data,
\* get_weather_data, save_config, set_theme) is answered by exactly one
\* message given to update, so each of them is in flight after the call.
C12_EveryEffectIsAnswered ==
  [][BagCardinality(pending') =
       BagCardinality(pending) - (IF IsResult(lastMsg') THEN 1 ELSE 0)
         + FuturesStarted(commands', status' = "crashed")
         + Len(saved') + Len(OfKind(commands', "set_theme"))]_vars

\* The closures turn a found place or snapshot into SetLocation or
\* SetWeatherData, and an empty answer or a transport error into Error.
ResultsAreDataOrError ==
  /\ \A data \in LocationAnswers :
       LocationResult(data).type =
         IF data[1] = "Ok" /\ data[2] # <<>> THEN "SetLocation" ELSE "Error"
  /\ \A cmd \in BagToSet(pending) :
       cmd.kind = "get_weather_data" =>
         \A data \in WeatherAnswers(cmd.coords) :
           WeatherResult(data).type =
             IF data[1] = "Ok" /\ data[2] # None THEN "SetWeatherData" ELSE "Error"

\* Each result message answers one future in flight, which is then no longer
\* in flight; the futures in flight grow only by the get_location_data and
\* get_weather_data commands a call returns; an Error starts nothing.
AnsweredOnceNoRetry ==
  /\ BagCardinality(pending') =
       BagCardinality(pending) - (IF IsResult(lastMsg') THEN 1 ELSE 0)
         + FuturesStarted(commands', status' = "crashed")
  /\ IsResult(lastMsg') => BagCardinality(pending) > 0
  /\ lastMsg'.type = "Error" => commands' = <<>> /\ saved' = <<>> /\ app' = app

\* C12 as amended: every get_location_data and get_weather_data future is
\* answered by exactly one message (SetLocation or SetWeatherData when
\* something was found, Error otherwise) and is never run again, also not
\* after an Error; save_config and set_theme are answered by no message.
C12_LookupsAnsweredOnce ==
  []ResultsAreDataOrError /\ [][AnsweredOnceNoRetry]_vars

\* A lookup has failed after a save: nothing is in flight.
C12_Witness ==
  /\ lastMsg.type = "Error"
  /\ pending = EmptyBag
  /\ app.config.units = "Celsius"
  /\ app.config.location = None

\* C13 as stated: no call of init or update panics, whatever the state and
\* the message: a DialogUpdate with no dialog open, a SetLocation or a start
\* with coordinates that are not numbers included.
C13_NoCallPanics == status # "crashed"

\* The call that leads to the next state returned nothing to run and saved
\* nothing.
NoEffect == /\ \A i \in 1..Len(commands') : commands'[i] = CmdNone
            /\ saved' = <<>>

\* C14 as stated: a DialogComplete or DialogCancel handled while dialog_pages
\* is empty does nothing at all: the App is unchanged, nothing is run or
\* saved, and the call returns.
C14_EmptyQueueIsNoOp ==
  [][(lastMsg'.type \in {"DialogComplete", "DialogCancel"} /\ app.dialog_pages = <<>>)
       => (app' = app /\ status' = "running" /\ NoEffect)]_vars

EmptyQueueKeepsState ==
  (lastMsg'.type \in {"DialogComplete", "DialogCancel"} /\ app.dialog_pages = <<>>) =>
    /\ app' = app
    /\ status' = "running"
    /\ IF lastMsg'.type = "DialogCancel"
       THEN NoEffect /\ pending' = pending /\ store' = store
       ELSE /\ OfKind(commands', "get_location_data") = <<CmdGetLocationData(lastMsg'.city)>>
            /\ saved' = <<app.config>>
            /\ pending' = pending (+) SetToBag({CmdGetLocationData(lastMsg'.city)})

\* C14 as amended: a DialogComplete or DialogCancel handled while dialog_pages
\* is empty returns and leaves the App as it is; DialogCancel runs and saves
\* nothing, DialogComplete still starts the lookup of its city and calls
\* save_config.
C14_EmptyQueueKeepsState == [][EmptyQueueKeepsState]_vars

\* A DialogComplete in a run that never opened a dialog has started a lookup.
C14_Witness ==
  /\ lastMsg = MsgDialogComplete("Paris")
  /\ pushes = 0
  /\ app.dialog_pages = <<>>
  /\ CmdGetLocationData("Paris") \in BagToSet(pending)

\* C15: a lookup in flight is never cancelled. When a second city is
\* confirmed before the first get_location_data has resolved, both stay in
\* flight, both SetLocation messages are eventually handled, each writes its
\* place to the configuration and returns its own get_weather_data, and the
\* configuration changes with nothing else: the place it holds in the end is
\* that of the SetLocation handled last, whichever lookup was started last.
NeverCancelled ==
  \A cmd \in BagToSet(pending) :
    CopiesIn(cmd, pending') >=
      CopiesIn(cmd, pending) - (IF IsResult(lastMsg') THEN 1 ELSE 0)

AppliedOnArrival ==
  IF lastMsg'.type = "SetLocation"
  THEN /\ app'.config = WithLocation(app.config, lastMsg'.location)
       /\ OfKind(commands', "get_weather_data") =
            <<CmdGetWeatherData(Coords(lastMsg'.location))>>
       /\ CopiesIn(CmdGetWeatherData(Coords(lastMsg'.location)), pending') >= 1
  ELSE app'.config = app.config

BothApplied ==
  \A city \in {"Denver", "Paris"} :
    (CopiesIn(CmdGetLocationData(city), pending) > 0)
      ~> (lastMsg = MsgSetLocation(Place(city)))

C15_OverlappingLookupsBothApply ==
  [][NeverCancelled /\ AppliedOnArrival]_vars /\ BothApplied

\* The place confirmed in the dialog was found first, the default place
\* (looked up since the start) last: the configuration holds the default
\* place and both fetches are in flight.
C15_Witness ==
  /\ lastMsg = MsgSetLocation(Denver)
  /\ app.config.location = Some(Denver.display_name)
  /\ pending = SetToBag({CmdGetWeatherData(Coords(Paris)),
                         CmdGetWeatherData(Coords(Denver))})

\* C16: SetWeatherData(data) stores data as the weather data whatever place
\* the configuration holds, changes nothing else and returns no command, and
\* nothing but SetWeatherData changes the weather data; so with two fetches
\* in flight the weather data, once both have resolved, is what the
\* SetWeatherData handled last carried.
WeatherIsLastFetched ==
  IF lastMsg'.type = "SetWeatherData"
  THEN /\ app' = [app EXCEPT !.weather_data = lastMsg'.data]
       /\ commands' = <<>> /\ saved' = <<>>
  ELSE app'.weather_data = app.weather_data

C16_WeatherIsLastFetched == [][WeatherIsLastFetched]_vars

\* Nothing is in flight, the configuration holds the default place, and the
\* weather data is that of the place confirmed in the dialog, which the
\* default place has superseded.
C16_Witness ==
  /\ pending = EmptyBag
  /\ lastMsg.type = "SetWeatherData"
  /\ app.config.location = Some(Denver.display_name)
  /\ app.config.latitude = Some(Denver.lat)
  /\ app.weather_data.at = Coords(Paris)

\* C17: the weather data changes only when a SetWeatherData is handled, and
\* the configuration only when a Units, TimeFmt, AppTheme, SetLocation or
\* Config is handled; every other message (ChangeCity, Quit,
\* ToggleContextPage, LaunchUrl, Modifiers, DialogUpdate, DialogComplete,
\* DialogCancel, Error, SystemThemeModeChange, a Key whatever it is bound to)
\* and a navigation selection leave both as they are.
OnlyTheirMessagesChangeThem ==
  /\ app'.weather_data # app.weather_data => lastMsg'.type = "SetWeatherData"
  /\ app'.config # app.config =>
       lastMsg'.type \in {"Units", "TimeFmt", "AppTheme", "SetLocation", "Config"}

C17_OnlyTheirMessagesChangeThem == [][OnlyTheirMessagesChangeThem]_vars

\* Weather was fetched, the units were changed, and the key bound to Quit
\* has been handled since.
C17_Witness ==
  /\ lastMsg = MsgKey(Ctrl, "q")
  /\ app.config.units = "Celsius"
  /\ app.weather_data # DefaultWeather

\* C18: after Config(cfg) the configuration in memory is cfg, whether it
\* differed before or not; no command is returned, save_config is not
\* called, and no other field of the App changes.
ConfigIsTakenNotSaved ==
  lastMsg'.type = "Config" =>
    /\ app' = [app EXCEPT !.config = lastMsg'.config]
    /\ commands' = <<>> /\ saved' = <<>>
    /\ store' = store /\ pending' = pending

C18_ConfigIsTakenNotSaved == [][ConfigIsTakenNotSaved]_vars

\* A Config has replaced the configuration in memory; the store still holds
\* the one saved before.
C18_Witness ==
  /\ lastMsg = MsgConfig(DefaultConfig)
  /\ app.config = DefaultConfig
  /\ IsSome(store) /\ Unwrap(store).units = "Celsius"

\* C19: Key(modifiers, key) leaves the App and returns the commands that the
\* message of the Action bound to (modifiers, key) leaves and returns when it
\* is handled directly (ToggleContextPage(About), ToggleContextPage(Settings),
\* ChangeCity or Quit), for one binding only; when no binding matches the
\* App is unchanged and no command is returned.
KeyIsItsAction ==
  lastMsg'.type = "Key" =>
    LET binds == MatchingBinds(lastMsg'.modifiers, lastMsg'.key)
    IN IF binds = {}
       THEN app' = app /\ commands' = <<>> /\ saved' = <<>> /\ status' = "running"
       ELSE /\ Cardinality(binds) = 1
            /\ \E bind \in binds :
                 LET direct ==
                       CASE bind.action = "About" -> UpdateToggleContextPage(app, "About")
                         [] bind.action = "Settings" -> UpdateToggleContextPage(app, "Settings")
                         [] bind.action = "ChangeCity" -> UpdateChangeCity(app)
                         [] bind.action = "Quit" -> UpdateQuit(app)
                 IN /\ app' = direct.app
                    /\ commands' = direct.commands
                    /\ saved' = direct.saves
                    /\ status' = IF bind.action = "Quit" THEN "closed" ELSE "running"

C19_KeyIsItsAction == [][KeyIsItsAction]_vars

\* The key bound to Quit has closed the window after two other calls.
C19_Witness ==
  /\ lastMsg = MsgKey(Ctrl, "q")
  /\ status = "closed"
  /\ commands = <<CmdWindowClose>>
  /\ budget = 0

\* C20: DialogUpdate(page) handled with a dialog open replaces the front
\* element of dialog_pages with page: the length of the queue and the
\* elements behind the front stay, nothing else in the App changes, and no
\* command is returned and nothing saved.
DialogUpdateEditsFront ==
  (lastMsg'.type = "DialogUpdate" /\ app.dialog_pages # <<>>) =>
    /\ app' = [app EXCEPT !.dialog_pages =
                 <<lastMsg'.dialog_page>> \o Tail(app.dialog_pages)]
    /\ commands' = <<>> /\ saved' = <<>>
    /\ status' = "running" /\ pending' = pending /\ store' = store

C20_DialogUpdateEditsFront == [][DialogUpdateEditsFront]_vars

\* Text was typed into the dialog with two more requests waiting behind it.
C20_Witness ==
  /\ lastMsg = MsgDialogUpdate(Change("Paris"))
  /\ app.dialog_pages = <<Change("Paris"), Change(""), Change("")>>

\* C21: save_config writes inside the call of update that asks for it, and
\* what it writes is the configuration as the call leaves it. With a handler,
\* a call that saves leaves the store either equal to the configuration in
\* memory (the write succeeded) or as it was (the write failed); without a
\* handler, and in calls that do not save, the store is not written, so the
\* writes are in the order of the calls. A failed write leaves the
\* configuration in memory as the call set it, and the save itself returns
\* the empty command: the only futures started are those of the commands the
\* call returns.
StoreFollowsHandler == IsSome(store) <=> app.config_handler

SavedWithinTheCall ==
  IF saved' # <<>>
  THEN /\ saved' = <<app'.config>>
       /\ store' \in (IF app.config_handler THEN {Some(app'.config), store}
                                            ELSE {store})
       /\ app' = update(app, lastMsg').app
       /\ status' # "crashed" => OfKind(commands', "none") # <<>>
       /\ BagCardinality(pending') =
            BagCardinality(pending) - (IF IsResult(lastMsg') THEN 1 ELSE 0)
              + FuturesStarted(commands', status' = "crashed")
  ELSE store' = store

C21_SavedWithinTheCall == []StoreFollowsHandler /\ [][SavedWithinTheCall]_vars

\* One write has succeeded and the next has failed: the store holds the units
\* chosen first, the configuration in memory also the time format chosen
\* after that.
C21_Witness ==
  /\ lastMsg = MsgTimeFmt("TwentyFourHr")
  /\ app.config.units = "Celsius" /\ app.config.timefmt = "TwentyFourHr"
  /\ store = Some([app.config EXCEPT !.timefmt = "TwelveHr"])

====
